---- MODULE Spec2Model ----
(***************************************************************************)
(* Model of sync-keymaps.py: the two keymap files, one invocation of       *)
(* sync_keymaps after another (load both, merge action by action, save     *)
(* both), and the pure shortcut converter.                                 *)
(*                                                                         *)
(* A keymap file is either not loadable (missing or not well-formed XML)   *)
(* or holds a root whose children are action elements; an action element   *)
(* is a record [id, keys]: its id attribute and the first-keystroke        *)
(* attributes of its keyboard-shortcut children, in document order.        *)
(* Strings are TLA+ strings, taken apart with Len, SubSeq and \o.          *)
(***************************************************************************)
EXTENDS Integers, Sequences, FiniteSets, TLC

VARIABLES
    files,            \* [windows, mac]: the two files on disk
    pc,               \* position of the script
    runs,             \* invocations of sync_keymaps so far
    snap,             \* history: the files as the current invocation found them
    orig,             \* history: the files before the first invocation
    written,          \* history: the files the current invocation has written
    windows_root,     \* in-memory root of the Windows document (its action children)
    mac_root,         \* in-memory root of the Mac document
    windows_actions,  \* dict id -> element (index into windows_root)
    mac_actions,      \* dict id -> element (index into mac_root)
    todo,             \* ids the loop over all_action_ids has still to visit
    shortcut,         \* converter run: the input string
    converted,        \* converter run: convert_shortcut(shortcut, to_mac=True)
    restored,         \* converter run: convert_shortcut(converted, to_mac=False)
    cpc               \* converter run: position

vars == <<files, pc, runs, snap, orig, written, windows_root, mac_root, windows_actions,
          mac_actions, todo, shortcut, converted, restored, cpc>>

syncVars == <<files, pc, runs, snap, orig, written, windows_root, mac_root, windows_actions,
              mac_actions, todo>>
convVars == <<shortcut, converted, restored, cpc>>

(***************************************************************************)
(* Bounds of the model.                                                    *)
(***************************************************************************)
MaxActions   == 3   \* action elements in the two input files together
MaxShortcuts == 2   \* keyboard-shortcut elements in the two input files together
MaxRuns      == 3   \* consecutive invocations of the script
MaxPieces    == 4   \* pieces a converter input string is put together from

ActionIds == {"copy", "paste"}
KeyPool   == {"ctrl+v", "meta+shift+v"}
Pieces    == {"ctrl", "meta", "ct", "rl", "met", "a", "+"}

Range(s) == {s[i] : i \in DOMAIN s}

(***************************************************************************)
(* Python string operations.                                               *)
(***************************************************************************)
Alphabet == "+abcdefghijklmnopqrstuvwxyz"

\* ord(c) up to a monotone renumbering
CharCode(c) == CHOOSE i \in 1..Len(Alphabet) : SubSeq(Alphabet, i, i) = c

\* s < t for Python strings: lexicographic by character
RECURSIVE StrLess(_, _)
StrLess(s, t) ==
    IF Len(t) = 0 THEN FALSE
    ELSE IF Len(s) = 0 THEN TRUE
    ELSE LET a == CharCode(SubSeq(s, 1, 1))
             b == CharCode(SubSeq(t, 1, 1))
         IN  IF a # b THEN a < b
             ELSE StrLess(SubSeq(s, 2, Len(s)), SubSeq(t, 2, Len(t)))

\* s.replace(old, new): every non-overlapping occurrence, left to right
RECURSIVE Replace(_, _, _)
Replace(s, old, new) ==
    IF Len(s) < Len(old) THEN s
    ELSE IF SubSeq(s, 1, Len(old)) = old
         THEN new \o Replace(SubSeq(s, Len(old) + 1, Len(s)), old, new)
         ELSE SubSeq(s, 1, 1) \o Replace(SubSeq(s, 2, Len(s)), old, new)

\* old in s
RECURSIVE Contains(_, _)
Contains(s, old) ==
    IF Len(s) < Len(old) THEN FALSE
    ELSE SubSeq(s, 1, Len(old)) = old \/ Contains(SubSeq(s, 2, Len(s)), old)

convert_shortcut_swapped(s, to_mac) ==
    IF to_mac THEN Replace(s, "meta", "ctrl") ELSE Replace(s, "ctrl", "meta")

convert_shortcut(s, to_mac) ==
    IF to_mac THEN Replace(s, "ctrl", "meta") ELSE Replace(s, "meta", "ctrl")

(***************************************************************************)
(* Documents.                                                              *)
(***************************************************************************)
Broken == [ok |-> FALSE, actions |-> <<>>]

NewAction(action_id) == [id |-> action_id, keys |-> <<>>]

\* the action children of a root that carry the id, in document order
WithId(root, action_id) == SelectSeq(root, LAMBDA a : a.id = action_id)

Ids(root) == {root[i].id : i \in DOMAIN root}

\* the sequences without repetition of the members of S
Orders(S) ==
    {o \in [1..Cardinality(S) -> S] :
        \A i, j \in 1..Cardinality(S) : o[i] = o[j] => i = j}

\* the document of the actions ids[lo..hi], the shortcut keys[j] being a child
\* of the action owner[j]
Document(ids, keys, owner, lo, hi) ==
    [a \in 1..(hi - lo + 1) |->
        [id   |-> ids[lo + a - 1],
         keys |-> SubSeq(keys,
                         Cardinality({j \in DOMAIN owner : owner[j] < lo + a - 1}) + 1,
                         Cardinality({j \in DOMAIN owner : owner[j] <= lo + a - 1}))]]

File(actions, loadable) == IF loadable THEN [ok |-> TRUE, actions |-> actions] ELSE Broken

\* converter inputs: at most n pieces put together
RECURSIVE Strings(_)
Strings(n) ==
    IF n = 0 THEN {""}
    ELSE {""} \cup {p \o s : p \in Pieces, s \in Strings(n - 1)}

(***************************************************************************)
(* load_keymap, save_keymap.                                               *)
(***************************************************************************)
load_keymap_lenient(file) == [raised |-> FALSE, root |-> file.actions]

\* ET.parse raises on a missing or malformed file, else the root is returned
load_keymap(file) == [raised |-> ~file.ok, root |-> file.actions]

\* the sorted list with one more action put behind every action whose id is
\* not greater
InsertById(sorted, action) ==
    LET n == Cardinality({i \in DOMAIN sorted : ~StrLess(action.id, sorted[i].id)})
    IN  SubSeq(sorted, 1, n) \o <<action>> \o SubSeq(sorted, n + 1, Len(sorted))

RECURSIVE sorted_by_id(_)
sorted_by_id(actions) ==
    IF actions = <<>> THEN <<>>
    ELSE InsertById(sorted_by_id(SubSeq(actions, 1, Len(actions) - 1)),
                    actions[Len(actions)])

RECURSIVE Reverse(_)
Reverse(s) == IF s = <<>> THEN <<>> ELSE Append(Reverse(Tail(s)), Head(s))

save_keymap_unstable(root) == sorted_by_id(Reverse(root))

\* the root's children after the sort, which is also what is written
save_keymap(root) == sorted_by_id(root)

(***************************************************************************)
(* The pieces of sync_keymaps.                                             *)
(***************************************************************************)
action_dict_first(root) ==
    [action_id \in Ids(root) |->
        CHOOSE i \in DOMAIN root :
            root[i].id = action_id /\ \A j \in DOMAIN root : root[j].id = action_id => i <= j]

\* {action.get('id'): action for action in root.findall('action')}: a later
\* action with the same id replaces the earlier one
action_dict(root) ==
    [action_id \in Ids(root) |->
        CHOOSE i \in DOMAIN root :
            root[i].id = action_id /\ \A j \in DOMAIN root : root[j].id = action_id => j <= i]

shortcuts_of(action) == Range(action.keys)

add_shortcuts_unchecked(action, shortcuts) ==
    {[action EXCEPT !.keys = @ \o o] : o \in Orders(shortcuts)}

add_shortcuts_replacing(action, shortcuts) ==
    {[action EXCEPT !.keys = o] : o \in Orders(shortcuts)}

\* the action with the keystrokes it has not got yet appended, in the order in
\* which the set is iterated
add_shortcuts(action, shortcuts) ==
    {[action EXCEPT !.keys = @ \o o] : o \in Orders(shortcuts \ shortcuts_of(action))}

\* dict.get(action_id), and ET.SubElement(root, 'action') when it is None
get_or_create(root, dict, action_id) ==
    IF action_id \in DOMAIN dict
    THEN [root |-> root, at |-> dict[action_id]]
    ELSE [root |-> Append(root, NewAction(action_id)), at |-> Len(root) + 1]

all_action_ids_windows_only(windows_dict, mac_dict) == DOMAIN windows_dict

\* set(windows_actions.keys()).union(mac_actions.keys())
all_action_ids(windows_dict, mac_dict) == DOMAIN windows_dict \cup DOMAIN mac_dict

all_shortcuts_untranslated(own, other, to_mac) == own \cup other

\* own.union({convert_shortcut(s, to_mac) for s in other})
all_shortcuts(own, other, to_mac) ==
    own \cup {convert_shortcut(s, to_mac) : s \in other}

(***************************************************************************)
(* The script, statement by statement.                                     *)
(***************************************************************************)
\* Any two files: n actions, the first i of them in the Windows file, the
\* others in the Mac file, with the shortcuts keys[1..m] dealt out to them in
\* order; either file may be one that does not load.
Init ==
    /\ \E n \in 0..MaxActions, m \in 0..MaxShortcuts :
        \E ids \in [1..n -> ActionIds], keys \in [1..m -> KeyPool],
           owner \in [1..m -> 1..n], i \in 0..n, unloadable \in SUBSET {"windows", "mac"} :
            /\ \A j \in 1..(m - 1) : owner[j] <= owner[j + 1]
            /\ Cardinality(unloadable) <= 1
            /\ files = [windows |-> File(Document(ids, keys, owner, 1, i),
                                         "windows" \notin unloadable),
                        mac     |-> File(Document(ids, keys, owner, i + 1, n),
                                         "mac" \notin unloadable)]
    /\ pc = "idle"
    /\ runs = 0
    /\ snap = files
    /\ orig = files
    /\ written = {}
    /\ windows_root = <<>>
    /\ mac_root = <<>>
    /\ windows_actions = <<>>
    /\ mac_actions = <<>>
    /\ todo = {}
    /\ shortcut = ""
    /\ converted = ""
    /\ restored = ""
    /\ cpc = "off"

\* __main__: the script is run (again)
Main ==
    /\ pc \in {"idle", "done", "aborted"}
    /\ runs < MaxRuns
    /\ runs' = runs + 1
    /\ snap' = files
    /\ written' = {}
    /\ pc' = "load_windows"
    /\ windows_root' = <<>>
    /\ mac_root' = <<>>
    /\ windows_actions' = <<>>
    /\ mac_actions' = <<>>
    /\ todo' = {}
    /\ UNCHANGED <<files, orig, convVars>>

LoadWindows ==
    /\ pc = "load_windows"
    /\ LET r == load_keymap(files.windows)
       IN  IF r.raised
           THEN /\ pc' = "aborted"
                /\ UNCHANGED windows_root
           ELSE /\ pc' = "load_mac"
                /\ windows_root' = r.root
    /\ UNCHANGED <<files, runs, snap, orig, written, mac_root, windows_actions, mac_actions, todo, convVars>>

LoadMac ==
    /\ pc = "load_mac"
    /\ LET r == load_keymap(files.mac)
       IN  IF r.raised
           THEN /\ pc' = "aborted"
                /\ UNCHANGED mac_root
           ELSE /\ pc' = "index"
                /\ mac_root' = r.root
    /\ UNCHANGED <<files, runs, snap, orig, written, windows_root, windows_actions, mac_actions, todo, convVars>>

\* the two dictionaries and all_action_ids
BuildIndex ==
    /\ pc = "index"
    /\ windows_actions' = action_dict(windows_root)
    /\ mac_actions' = action_dict(mac_root)
    /\ todo' = all_action_ids(windows_actions', mac_actions')
    /\ pc' = IF todo' = {} THEN "save_windows" ELSE "merge"
    /\ UNCHANGED <<files, runs, snap, orig, written, windows_root, mac_root, convVars>>

\* one pass of the loop body, for the id the set iteration yields next
MergeStep ==
    /\ pc = "merge"
    /\ \E action_id \in todo :
        LET w == get_or_create(windows_root, windows_actions, action_id)
            m == get_or_create(mac_root, mac_actions, action_id)
            windows_shortcuts == shortcuts_of(w.root[w.at])
            mac_shortcuts == shortcuts_of(m.root[m.at])
            all_windows_shortcuts == all_shortcuts(windows_shortcuts, mac_shortcuts, FALSE)
            all_mac_shortcuts == all_shortcuts(mac_shortcuts, windows_shortcuts, TRUE)
        IN  /\ windows_root' \in
                {[w.root EXCEPT ![w.at] = a] :
                    a \in add_shortcuts(w.root[w.at], all_windows_shortcuts)}
            /\ mac_root' \in
                {[m.root EXCEPT ![m.at] = a] :
                    a \in add_shortcuts(m.root[m.at], all_mac_shortcuts)}
            /\ todo' = todo \ {action_id}
            /\ pc' = IF todo' = {} THEN "save_windows" ELSE "merge"
    /\ UNCHANGED <<files, runs, snap, orig, written, windows_actions, mac_actions, convVars>>

SaveWindows ==
    /\ pc = "save_windows"
    /\ windows_root' = save_keymap(windows_root)
    /\ files' = [files EXCEPT !.windows = [ok |-> TRUE, actions |-> windows_root']]
    /\ written' = written \cup {"windows"}
    /\ pc' = "save_mac"
    /\ UNCHANGED <<runs, snap, orig, mac_root, windows_actions, mac_actions, todo, convVars>>

SaveMac ==
    /\ pc = "save_mac"
    /\ mac_root' = save_keymap(mac_root)
    /\ files' = [files EXCEPT !.mac = [ok |-> TRUE, actions |-> mac_root']]
    /\ written' = written \cup {"mac"}
    /\ pc' = "done"
    /\ UNCHANGED <<runs, snap, orig, windows_root, windows_actions, mac_actions, todo, convVars>>

Next ==
    \/ Main
    \/ LoadWindows
    \/ LoadMac
    \/ BuildIndex
    \/ MergeStep
    \/ SaveWindows
    \/ SaveMac

Spec == Init /\ [][Next]_vars

(***************************************************************************)
(* The converter on its own: a string is translated to the Mac convention  *)
(* and back.                                                               *)
(***************************************************************************)
ConvInit ==
    /\ files = [windows |-> [ok |-> TRUE, actions |-> <<>>],
                mac |-> [ok |-> TRUE, actions |-> <<>>]]
    /\ pc = "off"
    /\ runs = 0
    /\ snap = files
    /\ orig = files
    /\ written = {}
    /\ windows_root = <<>>
    /\ mac_root = <<>>
    /\ windows_actions = <<>>
    /\ mac_actions = <<>>
    /\ todo = {}
    /\ shortcut \in Strings(MaxPieces)
    /\ converted = ""
    /\ restored = ""
    /\ cpc = "given"

ToMac ==
    /\ cpc = "given"
    /\ converted' = convert_shortcut(shortcut, TRUE)
    /\ cpc' = "mac"
    /\ UNCHANGED <<shortcut, restored, syncVars>>

ToWindows ==
    /\ cpc = "mac"
    /\ restored' = convert_shortcut(converted, FALSE)
    /\ cpc' = "back"
    /\ UNCHANGED <<shortcut, converted, syncVars>>

ConvNext == ToMac \/ ToWindows

ConvSpec == ConvInit /\ [][ConvNext]_vars

(***************************************************************************)
(* Vocabulary of the properties.                                           *)
(***************************************************************************)
Platforms == {"windows", "mac"}

Other(platform) == IF platform = "windows" THEN "mac" ELSE "windows"

\* the first-keystroke strings under the actions of a document that carry the id
KeystrokeSet(actions, action_id) ==
    UNION {Range(actions[i].keys) : i \in {j \in DOMAIN actions : actions[j].id = action_id}}

Occurrences(keys, k) == Cardinality({i \in DOMAIN keys : keys[i] = k})

NoRepeat(keys) == \A i, j \in DOMAIN keys : keys[i] = keys[j] => i = j

IsPrefix(s, t) == Len(s) <= Len(t) /\ SubSeq(t, 1, Len(s)) = s

UniqueIds(actions) == \A i, j \in DOMAIN actions : actions[i].id = actions[j].id => i = j

Ascending(actions) ==
    \A i, j \in DOMAIN actions : i < j => ~StrLess(actions[j].id, actions[i].id)

Translated(keystrokes, from, to) == {Replace(s, from, to) : s \in keystrokes}

\* the token of a platform's convention
Token(platform) == IF platform = "windows" THEN "ctrl" ELSE "meta"

\* the keystrokes of the first (last) action of the document with the id
FirstKeys(actions, action_id) ==
    LET s == WithId(actions, action_id) IN IF s = <<>> THEN {} ELSE Range(s[1].keys)

LastKeys(actions, action_id) ==
    LET s == WithId(actions, action_id) IN IF s = <<>> THEN {} ELSE Range(s[Len(s)].keys)

InputIds == Ids(snap.windows.actions) \cup Ids(snap.mac.actions)

(***************************************************************************)
(* C1. Idempotence: the second of two consecutive runs of sync_keymaps     *)
(* leaves both files exactly as the first run wrote them (same actions,    *)
(* same keystroke lists, same order).                                      *)
(***************************************************************************)
C1_SecondRunChangesNothing ==
    (pc = "done" /\ runs = 2) => files = snap

(***************************************************************************)
(* C2. Keystroke-set union: after a run, for every action id of either     *)
(* input (an id that names one action of a document at most), the          *)
(* keystrokes of the action in the Windows file are its original ones      *)
(* plus the original Mac ones with every 'meta' replaced by 'ctrl', and    *)
(* the keystrokes in the Mac file are its original ones plus the original  *)
(* Windows ones with every 'ctrl' replaced by 'meta'.                      *)
(***************************************************************************)
C2_KeystrokeSetUnion ==
    pc = "done" =>
        \A action_id \in InputIds :
            (/\ Len(WithId(snap.windows.actions, action_id)) <= 1
             /\ Len(WithId(snap.mac.actions, action_id)) <= 1)
            =>
            /\ KeystrokeSet(files.windows.actions, action_id) =
                  KeystrokeSet(snap.windows.actions, action_id)
                  \cup Translated(KeystrokeSet(snap.mac.actions, action_id), "meta", "ctrl")
            /\ KeystrokeSet(files.mac.actions, action_id) =
                  KeystrokeSet(snap.mac.actions, action_id)
                  \cup Translated(KeystrokeSet(snap.windows.actions, action_id), "ctrl", "meta")

\* the paste scenario: Windows {ctrl+v}, Mac {meta+shift+v}
C2_Witness ==
    /\ pc = "done"
    /\ snap.windows.actions = <<[id |-> "paste", keys |-> <<"ctrl+v">>]>>
    /\ snap.mac.actions = <<[id |-> "paste", keys |-> <<"meta+shift+v">>]>>
    /\ files.windows.actions = <<[id |-> "paste", keys |-> <<"ctrl+v", "ctrl+shift+v">>]>>
    /\ files.mac.actions = <<[id |-> "paste", keys |-> <<"meta+shift+v", "meta+v">>]>>

(***************************************************************************)
(* C3. Union completeness: after a run the two files hold the same set of  *)
(* action ids, the union of the ids of the two inputs.                     *)
(***************************************************************************)
C3_UnionOfActionIds ==
    pc = "done" =>
        /\ Ids(files.windows.actions) = InputIds
        /\ Ids(files.mac.actions) = InputIds

\* the copy scenario: the action is in the Windows file alone and is created
\* in the Mac file with the translated keystroke
C3_Witness ==
    /\ pc = "done"
    /\ snap.windows.actions = <<[id |-> "copy", keys |-> <<"ctrl+v">>]>>
    /\ snap.mac.actions = <<>>
    /\ files.windows.actions = snap.windows.actions
    /\ files.mac.actions = <<[id |-> "copy", keys |-> <<"meta+v">>]>>

(***************************************************************************)
(* C4. Monotonic merge: a run removes no action and no shortcut and        *)
(* changes no id and no keystroke: in each file, the actions of an id are  *)
(* still there in their order, each with its keystroke list as it was,     *)
(* followed by what the run appended.                                      *)
(***************************************************************************)
C4_Monotonic ==
    pc = "done" =>
        \A p \in Platforms :
            /\ Len(files[p].actions) >= Len(snap[p].actions)
            /\ \A action_id \in Ids(snap[p].actions) :
                LET before == WithId(snap[p].actions, action_id)
                    after  == WithId(files[p].actions, action_id)
                IN  /\ Len(after) = Len(before)
                    /\ \A j \in DOMAIN before : IsPrefix(before[j].keys, after[j].keys)

\* a run that appends a shortcut to an action that had one, and an action
C4_Witness ==
    /\ pc = "done"
    /\ \E i \in DOMAIN snap.windows.actions :
        LET a == snap.windows.actions[i]
            after == WithId(files.windows.actions, a.id)
        IN  /\ a.keys # <<>>
            /\ UniqueIds(snap.windows.actions)
            /\ Len(after[1].keys) > Len(a.keys)
    /\ Len(files.windows.actions) > Len(snap.windows.actions)

(***************************************************************************)
(* C5. No duplication, as stated: after a run, no action of either file    *)
(* holds the same first-keystroke string twice.                            *)
(***************************************************************************)
C5_NoRepeatedKeystroke ==
    pc = "done" =>
        \A p \in Platforms :
            \A i \in DOMAIN files[p].actions : NoRepeat(files[p].actions[i].keys)

(***************************************************************************)
(* C5, amended. A run never appends a keystroke the action already has:    *)
(* every keystroke of an input action occurs in the output action as often *)
(* as in the input, every other keystroke of the output action occurs      *)
(* once; so an action without repeated keystrokes in the input has none in *)
(* the output, and an action the run creates has none.                     *)
(***************************************************************************)
C5_NothingAppendedTwice ==
    pc = "done" =>
        \A p \in Platforms :
            \A action_id \in Ids(files[p].actions) :
                LET before == WithId(snap[p].actions, action_id)
                    after  == WithId(files[p].actions, action_id)
                IN  \A j \in DOMAIN after :
                        \A k \in Range(after[j].keys) :
                            Occurrences(after[j].keys, k) =
                                IF j \in DOMAIN before /\ k \in Range(before[j].keys)
                                THEN Occurrences(before[j].keys, k)
                                ELSE 1

\* a run that appends to an action whose input list repeats a keystroke
C5_Witness ==
    /\ pc = "done"
    /\ \E i \in DOMAIN snap.windows.actions :
        LET a == snap.windows.actions[i]
            after == WithId(files.windows.actions, a.id)
        IN  /\ UniqueIds(snap.windows.actions)
            /\ ~NoRepeat(a.keys)
            /\ Len(after[1].keys) > Len(a.keys)

(***************************************************************************)
(* C6. Translation round trip: a string without 'meta' in it, converted to *)
(* the Mac convention and back, is the string again.                       *)
(***************************************************************************)
C6_RoundTrip ==
    (cpc = "back" /\ ~Contains(shortcut, "meta")) => restored = shortcut

\* a string with two 'ctrl' in it has gone to the Mac convention and back
C6_Witness ==
    /\ cpc = "back"
    /\ shortcut = "ctrl+ctrl"
    /\ converted = "meta+meta"
    /\ restored = shortcut

(***************************************************************************)
(* C7. Input errors abort before any write: a run writes a file only       *)
(* after both files were loaded, and a run that a load failure aborts has  *)
(* written nothing and leaves both files as they were.                     *)
(***************************************************************************)
C7_NoWriteUnlessBothLoaded ==
    /\ written # {} => (snap.windows.ok /\ snap.mac.ok)
    /\ (runs > 0 /\ ~(snap.windows.ok /\ snap.mac.ok)) =>
            (pc \in {"load_windows", "load_mac", "aborted"} /\ files = snap)
    /\ pc = "aborted" => (written = {} /\ files = snap)

\* the Mac file fails to load after the Windows file, which holds actions,
\* was loaded
C7_Witness ==
    /\ pc = "aborted"
    /\ snap.windows.ok
    /\ ~snap.mac.ok
    /\ windows_root # <<>>
    /\ written = {}
    /\ files = snap

(***************************************************************************)
(* C8. Deterministic ordering at save: what save_keymap writes are the     *)
(* root's actions in ascending order of id, the actions of one id in the   *)
(* order they had; actions already in ascending order stay as they are.    *)
(***************************************************************************)
SortedStable(before, after) ==
    /\ Len(after) = Len(before)
    /\ Ascending(after)
    /\ \A action_id \in Ids(before) \cup Ids(after) :
           WithId(after, action_id) = WithId(before, action_id)
    /\ Ascending(before) => after = before

C8_SavedInStableAscendingOrder ==
    [][/\ pc = "save_windows" => SortedStable(windows_root, files'.windows.actions)
       /\ pc = "save_mac" => SortedStable(mac_root, files'.mac.actions)]_vars

\* the Windows file was saved from a root out of order, with two actions of
\* one id
C8_Witness ==
    /\ pc = "save_mac"
    /\ runs = 1
    /\ snap.windows.actions = <<[id |-> "paste", keys |-> <<"ctrl+v">>],
                                [id |-> "copy", keys |-> <<>>],
                                [id |-> "paste", keys |-> <<>>]>>
    /\ files.windows.actions = <<[id |-> "copy", keys |-> <<>>],
                                 [id |-> "paste", keys |-> <<"ctrl+v">>],
                                 [id |-> "paste", keys |-> <<>>]>>

(***************************************************************************)
(* C9, as stated. Duplicate ids, first occurrence wins: where a file holds *)
(* several actions of one id, the run reads the keystrokes of the first    *)
(* of them and appends to the first of them, the others staying as they    *)
(* are.                                                                    *)
(***************************************************************************)
Duplicated(action_id) ==
    \E p \in Platforms : Len(WithId(snap[p].actions, action_id)) >= 2

C9_FirstOccurrenceWins ==
    pc = "done" =>
        \A action_id \in InputIds : Duplicated(action_id) =>
            \A p \in Platforms :
                LET before == WithId(snap[p].actions, action_id)
                    after  == WithId(files[p].actions, action_id)
                IN  /\ Len(after) = IF before = <<>> THEN 1 ELSE Len(before)
                    /\ \A j \in 2..Len(before) : after[j] = before[j]
                    /\ Range(after[1].keys) =
                          FirstKeys(snap[p].actions, action_id)
                          \cup Translated(FirstKeys(snap[Other(p)].actions, action_id),
                                          Token(Other(p)), Token(p))

(***************************************************************************)
(* C9, amended. Duplicate ids, last occurrence wins: where a file holds    *)
(* several actions of one id, the run reads the keystrokes of the last of  *)
(* them and appends to the last of them, the others staying as they are.   *)
(***************************************************************************)
C9_LastOccurrenceWins ==
    pc = "done" =>
        \A action_id \in InputIds : Duplicated(action_id) =>
            \A p \in Platforms :
                LET before == WithId(snap[p].actions, action_id)
                    after  == WithId(files[p].actions, action_id)
                IN  /\ Len(after) = IF before = <<>> THEN 1 ELSE Len(before)
                    /\ \A j \in 1..(Len(before) - 1) : after[j] = before[j]
                    /\ Range(after[Len(after)].keys) =
                          LastKeys(snap[p].actions, action_id)
                          \cup Translated(LastKeys(snap[Other(p)].actions, action_id),
                                          Token(Other(p)), Token(p))

\* two paste actions in the Windows file, the first with ctrl+v, and one in
\* the Mac file with meta+shift+v: the second gets ctrl+shift+v and the Mac
\* action gets nothing
C9_Witness ==
    /\ pc = "done"
    /\ snap.windows.actions = <<[id |-> "paste", keys |-> <<"ctrl+v">>],
                                [id |-> "paste", keys |-> <<>>]>>
    /\ snap.mac.actions = <<[id |-> "paste", keys |-> <<"meta+shift+v">>]>>
    /\ files.windows.actions = <<[id |-> "paste", keys |-> <<"ctrl+v">>],
                                 [id |-> "paste", keys |-> <<"ctrl+shift+v">>]>>
    /\ files.mac.actions = snap.mac.actions

(***************************************************************************)
(* C10. Convergence within two runs: for input files with unique action    *)
(* ids, whatever tokens their keystrokes hold, the third run and every     *)
(* later run leave both files exactly as the second run wrote them.        *)
(***************************************************************************)
C10_FixedPointAfterTwoRuns ==
    (/\ pc = "done"
     /\ runs >= 3
     /\ UniqueIds(orig.windows.actions)
     /\ UniqueIds(orig.mac.actions))
    => files = snap

\* the Windows input holds a 'meta' keystroke: the second run still added
\* ctrl+shift+v to it, the third run has added nothing
C10_Witness ==
    /\ pc = "done"
    /\ runs = 3
    /\ orig.windows.actions = <<[id |-> "copy", keys |-> <<"meta+shift+v">>]>>
    /\ orig.mac.actions = <<>>
    /\ files.windows.actions = <<[id |-> "copy", keys |-> <<"meta+shift+v", "ctrl+shift+v">>]>>
    /\ files.mac.actions = <<[id |-> "copy", keys |-> <<"meta+shift+v">>]>>
    /\ files = snap

====
